---- MODULE Spec2Model ----
(***************************************************************************)
(* Model of the per-probe consensus outage detector of the network        *)
(* monitor (codagem/src/consensus.rs).  One ConsensusState is driven by a *)
(* sequence of update calls; every call receives the metric vector of one *)
(* cycle (as the prober returns it: at most one metric per target, in     *)
(* target order, targets whose measurement task failed left out) and the  *)
(* wall-clock timestamp of the cycle.                                     *)
(*                                                                         *)
(* The same detector is then driven by the per-probe scheduler            *)
(* (codagem/src/scheduler.rs, run_scheduler): one action per tick of the   *)
(* loop in each of its two states, against a store whose writes may fail.  *)
(*                                                                         *)
(* Option<T> is modelled as a sequence of length 0 (None) or 1 (Some).    *)
(* Timestamps are integers counting ticks of 1/TicksPerSecond second.     *)
(***************************************************************************)
EXTENDS Integers, Sequences, FiniteSets, TLC

\* ---------------------------------------------------------------- bounds
MaxQ == 2
MaxUpdates == 4
MaxStep == 2
TicksPerSecond == 2
MaxParam == 4
MaxTicks == 3
MaxPings == 3
ElapsedTimes == {0, 1}
MaxWarmupCalls == 5
MaxFleetCycles == 4
MaxWindow == 3
RefusalCounts == 0..1

\* scheduler.rs:121 - TargetWarmupState::new(3)
RequiredStreak == 3

\* scheduler.rs:86-90 - the ping_count and cycle_id of the liveness ping
LivenessPingCount == 1
LivenessCycleId == 0

\* The monitored targets, in the order list_targets returns them (by id).
TargetList == <<1, 2>>

\* The window depths W the detector is built with.
WindowDepths == {1, 2}

\* ------------------------------------------------------------ data model
None == <<>>
Some(x) == <<x>>

ProbedStatuses == {"Up", "Down"}

MetricStatus == {"Up", "Down", "Degraded", "Timeout"}

Targets == {TargetList[i] : i \in 1..Len(TargetList)}

ProbeIds == {None, Some(1)}

\* The fields of ConnectivityMetric that the detector reads.
ConnectivityMetric(t, s) == [target_id |-> t, status |-> s]

RECURSIVE VectorsUpTo(_)
\* The vectors ping_targets can return for the first n targets: the handles
\* are awaited in target order and a target whose task failed is skipped.
VectorsUpTo(n) ==
    IF n = 0 THEN {<<>>}
    ELSE LET prev == VectorsUpTo(n - 1)
         IN  prev \cup {Append(v, ConnectivityMetric(TargetList[n], s)) :
                            v \in prev, s \in MetricStatus}

CycleVectors == VectorsUpTo(Len(TargetList))

\* The vectors of a probe that monitors the first target alone.
SingleTargetVectors == VectorsUpTo(1)

\* ----------------------------------------------------------------- state
VARIABLES
    history,          \* ConsensusState.history: the window of cycle vectors
    fail_threshold,   \* ConsensusState.fail_threshold (W)
    consensus,        \* ConsensusState.consensus (Q)
    current_outage,   \* ConsensusState.current_outage: Option<OutageEvent>
    probe_id,         \* ConsensusState.probe_id: Option<i32>
    cycle_results,    \* argument of the latest update
    cycle_timestamp,  \* argument of the latest update (the wall clock)
    result,           \* value returned by the latest update
    last_emitted,     \* the latest event returned before the latest update
    updates,          \* number of update calls so far
    all_up_or_degraded \* every metric of every cycle so far was Up or Degraded

\* validate_params
VARIABLES
    num_targets,      \* argument of validate_params
    validation        \* Option of the value validate_params returned

\* run_scheduler and the store
VARIABLES
    state,            \* SchedulerState of the loop
    warmup,           \* TargetWarmupState.success_streak: target_id -> streak
    cycle_number,     \* the loop's cycle counter
    store_cycles,     \* rows of monitoring_cycles: [id, cycle_number]
    store_metrics,    \* rows of connectivity_metrics: [cycle_id, target_id, status]
    store_status,     \* rows of target_status: target_id -> last_status
    store_outages,    \* rows of outage_events, in insertion order
    tick_log,         \* the calls of the latest tick, in the order made
    probed,           \* the vector ping_targets returned last
    ticks,            \* number of ticks so far
    cycles_submitted, \* the cycle_number of every Cycle row passed to insert_cycle
    emitted,          \* every event the detector returned to the scheduler
    store_failures    \* number of store writes that failed so far

\* ping_targets, check_connectivity_resilient and TargetWarmupState taken
\* on their own
VARIABLES
    ping_count,        \* argument of ping_targets
    ping_tasks,        \* per target: the attempts of its task, None if the task faulted
    ping_results,      \* the vector ping_targets returned
    liveness_env,      \* what the network answers to each attempt of the liveness check
    liveness_attempts, \* the attempts of check_connectivity_resilient, in order
    liveness_result,   \* Option of the bool it returned
    warmup_calls,      \* the (target_id, is_success) of every warmup.update so far
    warmed             \* Option of the bool the latest warmup.update returned

detectorVars == <<history, fail_threshold, consensus, current_outage, probe_id,
                  cycle_results, cycle_timestamp, result, last_emitted, updates,
                  all_up_or_degraded>>

validationVars == <<num_targets, validation>>

schedulerVars == <<state, warmup, cycle_number, store_cycles, store_metrics, store_status,
                   store_outages, tick_log, probed, ticks, cycles_submitted,
                   emitted, store_failures>>

\* the schedulers main spawns, one per probe
VARIABLES
    fleet              \* None, or the detectors, warmup maps and cycles of all probes

proberVars == <<ping_count, ping_tasks, ping_results>>

livenessVars == <<liveness_env, liveness_attempts, liveness_result>>

warmupVars == <<warmup_calls, warmed>>

fleetVars == <<fleet>>

partVars == <<proberVars, livenessVars, warmupVars, fleetVars>>

vars == <<detectorVars, validationVars, schedulerVars, partVars>>

\* ------------------------------------------------- ConsensusState::update
Range(s) == {s[i] : i \in 1..Len(s)}

\* Variants of the tally's status test: Down only, and Degraded as well.
IsFailureDownOnly(status) == status = "Down"

IsFailureWithDegraded(status) == status \in {"Down", "Timeout", "Degraded"}

\* consensus.rs:64 - the statuses that count towards a target's tally.
IsFailure(status) == status = "Down" \/ status = "Timeout"

\* Window maintenance that evicts only once the window exceeds w.
PushHistoryLate(h, w, cycle) ==
    IF Len(h) > w THEN Append(Tail(h), cycle) ELSE Append(h, cycle)

\* consensus.rs:55-58 - window maintenance.
PushHistory(h, w, cycle) ==
    IF Len(h) = w
    THEN Append(IF Len(h) = 0 THEN h ELSE Tail(h), cycle)
    ELSE Append(h, cycle)

\* A tally to which a cycle without a metric of target t adds one.
FailuresInOrMissing(cycle, t) ==
    IF \A j \in 1..Len(cycle) : cycle[j].target_id # t
    THEN 1
    ELSE Cardinality({j \in 1..Len(cycle) :
                         cycle[j].target_id = t /\ IsFailure(cycle[j].status)})

\* Number of metrics of one cycle that add to target t's tally.
FailuresIn(cycle, t) ==
    Cardinality({j \in 1..Len(cycle) :
                    cycle[j].target_id = t /\ IsFailure(cycle[j].status)})

RECURSIVE TallyOver(_, _, _)
TallyOver(h, i, t) ==
    IF i = 0 THEN 0 ELSE TallyOver(h, i - 1, t) + FailuresIn(h[i], t)

\* consensus.rs:61-68 - the down_counts map: an entry exists only for a
\* target with at least one Down/Timeout metric in the window.
DownCounts(h) ==
    LET keys == {t \in UNION {{m.target_id : m \in Range(h[i])} : i \in 1..Len(h)} :
                    TallyOver(h, Len(h), t) > 0}
    IN  [t \in keys |-> TallyOver(h, Len(h), t)]

\* A filter that selects every target with a failure in the window.
MeetsThresholdAny(count, w) == count >= 1

\* A filter that selects a target failing in at least half of w cycles.
MeetsThresholdMajority(count, w) == 2 * count >= w

\* consensus.rs:73 - the filter that selects a target into majority_down.
MeetsThreshold(count, w) == count = w

\* consensus.rs:71-75 - the targets of majority_down, as a set.
MajorityDown(h, w) ==
    LET dc == DownCounts(h)
    IN  {t \in DOMAIN dc : MeetsThreshold(dc[t], w)}

\* majority_down is collected from a HashMap iterator: its order is any
\* order of the selected keys.
Orderings(S) ==
    {s \in [1..Cardinality(S) -> S] : \A i, j \in 1..Cardinality(S) : s[i] = s[j] => i = j}

\* The difference in ticks, not converted to seconds.
NumTicks(d) == d

\* chrono::Duration::num_seconds on a difference of timestamps: whole
\* seconds, truncated toward zero.  (The cast to i32 is the identity on every
\* value of this model.)
NumSeconds(d) ==
    IF d >= 0 THEN d \div TicksPerSecond ELSE -((-d) \div TicksPerSecond)

\* The level taken from the size of the whole down_counts map.
ConsensusLevelOfCounts(majority_down, dc) == Some(Cardinality(DOMAIN dc))

\* consensus.rs:101
ConsensusLevel(majority_down, dc) == Some(Len(majority_down))

\* consensus.rs:97-100
AffectedProbes(pid) == IF pid = None THEN None ELSE Some(<<pid[1]>>)

\* consensus.rs:90-108 - the event built when the quorum is first reached.
OpenEvent(majority_down, ts, h, w, q, pid) ==
    [ id               |-> 0,
      start_time       |-> ts,
      end_time         |-> None,
      duration_seconds |-> None,
      reason           |-> Some("consensus_reached"),
      affected_targets |-> majority_down,
      affected_probes  |-> AffectedProbes(pid),
      consensus_level  |-> ConsensusLevel(majority_down, DownCounts(h)),
      details          |-> [ fail_threshold |-> w,
                             consensus      |-> q,
                             history_len    |-> Len(h),
                             down_counts    |-> DownCounts(h) ] ]

\* A close that dates the outage from the closing update.
CloseEventAnew(event, ts) ==
    [event EXCEPT !.start_time = ts,
                  !.end_time = Some(ts),
                  !.duration_seconds = Some(0)]

\* consensus.rs:119-122 - the open event, closed at ts.
CloseEvent(event, ts) ==
    [event EXCEPT !.end_time = Some(ts),
                  !.duration_seconds = Some(NumSeconds(ts - event.start_time))]

\* A close that leaves the closed event in the slot.
SlotKeepsClosed(closed) == Some(closed)

\* consensus.rs:118 - what take() leaves in the slot.
SlotAfterClose(closed) == None

\* A quorum test that needs more than q targets.
QuorumExceeded(n, q) == n > q

\* consensus.rs:88 - the quorum test.
QuorumReached(n, q) == n >= q

\* An opening branch that does not look at the slot.
MayOpenAlways(slot) == TRUE

\* consensus.rs:89 - the guard of the opening branch.
MayOpen(slot) == slot = None

\* consensus.rs:49-131 - update as a function of the struct, the arguments
\* and the iteration order of the map: the new window, the new slot and the
\* returned value.
UpdateOutcome(h, w, q, slot, pid, cycle, ts, order) ==
    LET h2 == PushHistory(h, w, cycle)
    IN  IF QuorumReached(Len(order), q)
        THEN IF MayOpen(slot)
             THEN LET event == OpenEvent(order, ts, h2, w, q, pid)
                  IN  [history |-> h2, current_outage |-> Some(event), result |-> Some(event)]
             ELSE [history |-> h2, current_outage |-> slot, result |-> None]
        ELSE IF slot # None
             THEN LET closed == CloseEvent(slot[1], ts)
                  IN  [history |-> h2, current_outage |-> SlotAfterClose(closed),
                       result |-> Some(closed)]
             ELSE [history |-> h2, current_outage |-> slot, result |-> None]

\* ------------------------------------------------------- the state machine
\* scheduler.rs:120-122 - the locals of run_scheduler before its loop, and
\* an empty store.
SchedulerStart ==
    /\ state = "WaitingForInternet"
    /\ warmup = <<>>
    /\ cycle_number = 0
    /\ store_cycles = {}
    /\ store_metrics = {}
    /\ store_status = <<>>
    /\ store_outages = <<>>
    /\ tick_log = <<>>
    /\ probed = <<>>
    /\ ticks = 0
    /\ cycles_submitted = <<>>
    /\ emitted = <<>>
    /\ store_failures = 0

\* No call of ping_targets or TargetWarmupState::update on its own.
ProberIdle ==
    /\ ping_count = 1
    /\ ping_tasks = <<>>
    /\ ping_results = <<>>

WarmupIdle ==
    /\ warmup_calls = <<>>
    /\ warmed = None

\* No call of check_connectivity_resilient on its own, in a network where
\* nothing answers and no task faults.
LivenessIdle ==
    /\ liveness_env = [tcp |-> [i \in 1..Len(TargetList) |-> [j \in 1..3 |-> FALSE]],
                       resolver_ok |-> FALSE,
                       dns |-> [i \in 1..Len(TargetList) |-> FALSE],
                       tasks |-> [i \in 1..Len(TargetList) |-> None]]
    /\ liveness_attempts = <<>>
    /\ liveness_result = None

\* One scheduler only.
FleetIdle == fleet = None

PartsIdle == ProberIdle /\ WarmupIdle /\ LivenessIdle /\ FleetIdle

\* No validate_params call yet.
NotValidated ==
    /\ num_targets = Len(TargetList)
    /\ validation = None
    /\ PartsIdle

\* consensus.rs:21-29 - ConsensusState::new with the given W and Q.
DetectorNew(ws, qs, pids) ==
    /\ fail_threshold \in ws
    /\ consensus \in qs
    /\ probe_id \in pids
    /\ history = <<>>
    /\ current_outage = None
    /\ cycle_results = <<>>
    /\ cycle_timestamp = 0
    /\ result = None
    /\ last_emitted = None
    /\ updates = 0
    /\ all_up_or_degraded = TRUE

\* consensus.rs:21-29 - ConsensusState::new, for every W, Q and probe id.
Init ==
    /\ SchedulerStart
    /\ NotValidated
    /\ DetectorNew(WindowDepths, 1..MaxQ, ProbeIds)

\* One call of update with the vector of a cycle and the clock's reading.
Update(cycle, ts) ==
    /\ updates < MaxUpdates
    /\ \E order \in Orderings(MajorityDown(PushHistory(history, fail_threshold, cycle),
                                           fail_threshold)) :
          LET out == UpdateOutcome(history, fail_threshold, consensus, current_outage,
                                   probe_id, cycle, ts, order)
          IN  /\ history' = out.history
              /\ current_outage' = out.current_outage
              /\ result' = out.result
    /\ last_emitted' = IF result # None THEN result ELSE last_emitted
    /\ cycle_results' = cycle
    /\ cycle_timestamp' = ts
    /\ updates' = updates + 1
    /\ all_up_or_degraded' =
          (all_up_or_degraded /\ \A j \in 1..Len(cycle) : cycle[j].status \in {"Up", "Degraded"})
    /\ UNCHANGED <<fail_threshold, consensus, probe_id>>

\* The detector under every cycle vector; the clock reads one tick later at
\* every call.
Next ==
    /\ \E cycle \in CycleVectors : Update(cycle, cycle_timestamp + 1)
    /\ UNCHANGED <<validationVars, schedulerVars, partVars>>

Spec == Init /\ [][Next]_vars

\* The detector of a single-target probe under a clock that reads any value
\* from the previous reading up to MaxStep ticks later.
NextClock ==
    /\ \E cycle \in SingleTargetVectors, ts \in cycle_timestamp..(cycle_timestamp + MaxStep) :
          Update(cycle, ts)
    /\ UNCHANGED <<validationVars, schedulerVars, partVars>>

\* consensus.rs:21-29 - a fresh single-quorum detector of every window
\* depth up to MaxWindow.
InitWindow ==
    /\ SchedulerStart
    /\ NotValidated
    /\ DetectorNew(1..MaxWindow, {1}, {Some(1)})

\* The detector of a single-target probe, the clock reading one tick
\* later at every call.
NextWindow ==
    /\ \E cycle \in SingleTargetVectors : Update(cycle, cycle_timestamp + 1)
    /\ UNCHANGED <<validationVars, schedulerVars, partVars>>

SpecWindow == InitWindow /\ [][NextWindow]_vars

\* ------------------------------------------------------- validate_params
\* A check that also rejects a quorum equal to the number of targets.
ValidateParamsStrict(w, q, n) ==
    IF w = 0 THEN "Err: fail_threshold"
    ELSE IF q = 0 THEN "Err: consensus"
    ELSE IF q >= n THEN "Err: consensus > targets"
    ELSE "Ok"

\* consensus.rs:32-46 - ConsensusState::validate_params.
ValidateParams(w, q, n) ==
    IF w = 0 THEN "Err: fail_threshold"
    ELSE IF q = 0 THEN "Err: consensus"
    ELSE IF q > n THEN "Err: consensus > targets"
    ELSE "Ok"

\* A detector built with any W and Q (usize, from 0), not yet updated, and
\* any number of targets.
InitValidate ==
    /\ SchedulerStart
    /\ DetectorNew(0..MaxParam, 0..MaxParam, ProbeIds)
    /\ num_targets \in 0..MaxParam
    /\ validation = None
    /\ PartsIdle

\* One call of validate_params(&self, num_targets).
Validate ==
    /\ validation = None
    /\ validation' = Some(ValidateParams(fail_threshold, consensus, num_targets))
    /\ UNCHANGED <<detectorVars, num_targets, schedulerVars, partVars>>

NextValidate == Validate

SpecValidate == InitValidate /\ [][NextValidate]_vars

\* ------------------------------------------------------- run_scheduler
\* types.rs:21-25 - SchedulerState.
SchedulerState == {"WaitingForInternet", "Monitoring"}

\* One call made by a tick: the callee, its argument (a cycle id, a cycle
\* number, a target id or a timestamp) and its outcome (Ok for a store
\* write, the returned bool for warmup.update and the liveness check,
\* is_some for consensus.update).
Call(op, arg, ok) == [op |-> op, arg |-> arg, ok |-> ok]

\* The Storage methods that write (storage.rs:74-172).
StoreWrites == {"insert_cycle", "insert_connectivity_metric", "set_target_status",
                "insert_outage_event"}

IsFailedWrite(c) == c.op \in StoreWrites /\ ~c.ok

\* No call ends the tick early.
EndsTickNever(c) == FALSE

\* Every failed store write ends the tick.
EndsTickOnAnyFailedWrite(c) == IsFailedWrite(c)

\* scheduler.rs:205-214 - the only early exit of a tick is the `continue`
\* on Err of insert_cycle; every other Err is logged (168-178, 225-250,
\* 261-266).
EndsTick(c) == c.op = "insert_cycle" /\ ~c.ok

\* The calls of a planned tick that are made: all of them up to and
\* including the first that ends the tick.
MadeCalls(calls) ==
    LET ends == {i \in 1..Len(calls) : EndsTick(calls[i])}
    IN  IF ends = {} THEN calls
        ELSE SubSeq(calls, 1, CHOOSE i \in ends : \A j \in ends : i <= j)

HasCall(calls, op) == \E i \in 1..Len(calls) : calls[i].op = op

CallOk(calls, op, arg) ==
    \E i \in 1..Len(calls) : calls[i].op = op /\ calls[i].arg = arg /\ calls[i].ok

WriteFailures(calls) == Cardinality({i \in 1..Len(calls) : IsFailedWrite(calls[i])})

\* HashMap::insert / upsert of one key.
Put(f, k, v) == [x \in (DOMAIN f) \cup {k} |-> IF x = k THEN v ELSE f[x]]

\* A streak that a failure leaves as it was.
StreakAfterNoReset(streaks, t, is_success) ==
    (IF t \in DOMAIN streaks THEN streaks[t] ELSE 0) + (IF is_success THEN 1 ELSE 0)

\* types.rs:220-228 - TargetWarmupState::update, the streak it stores.
StreakAfter(streaks, t, is_success) ==
    IF is_success
    THEN (IF t \in DOMAIN streaks THEN streaks[t] ELSE 0) + 1
    ELSE 0

\* types.rs:228 - the bool TargetWarmupState::update returns.
Warmed(streak) == streak >= RequiredStreak

\* scheduler.rs:235-236 - warmup.update for one metric.
WarmupUpdate(streaks, metric) ==
    Put(streaks, metric.target_id,
        StreakAfter(streaks, metric.target_id, metric.status = "Up"))

\* scheduler.rs:234-236 - warmup.update for the first n metrics, in order.
RECURSIVE WarmupAfter(_, _, _)
WarmupAfter(streaks, metrics, n) ==
    IF n = 0 THEN streaks
    ELSE WarmupUpdate(WarmupAfter(streaks, metrics, n - 1), metrics[n])

\* storage.rs:162-172 - set_target_status: an upsert, or nothing on Err.
SetTargetStatus(rows, metric, ok) ==
    IF ok THEN Put(rows, metric.target_id, metric.status) ELSE rows

\* scheduler.rs:241-243 - set_target_status for the first n metrics, in
\* order.
RECURSIVE StatusAfter(_, _, _, _)
StatusAfter(rows, metrics, oks, n) ==
    IF n = 0 THEN rows
    ELSE SetTargetStatus(StatusAfter(rows, metrics, oks, n - 1), metrics[n], oks[n])

\* scheduler.rs:225-232 - one insert_connectivity_metric per metric.
MetricInsertCalls(metrics, oks) ==
    [i \in 1..Len(metrics) |->
        Call("insert_connectivity_metric", metrics[i].target_id, oks[i])]

\* scheduler.rs:234-250 - per metric, warmup.update then set_target_status.
StatusCalls(streaks, metrics, oks) ==
    [k \in 1..(2 * Len(metrics)) |->
        LET i == (k + 1) \div 2
            t == metrics[i].target_id
        IN  IF k % 2 = 1
            THEN Call("warmup.update", t, Warmed(WarmupAfter(streaks, metrics, i)[t]))
            ELSE Call("set_target_status", t, oks[i])]

\* consensus.update alone: the event it returns is dropped.
ConsensusCallsNoInsert(ts, res, outage_ok) ==
    <<Call("consensus.update", ts, res # None)>>

\* scheduler.rs:150-178, 253-273 - consensus.update, then
\* insert_outage_event when it returned Some.
ConsensusCalls(ts, res, outage_ok) ==
    <<Call("consensus.update", ts, res # None)>>
      \o (IF res # None THEN <<Call("insert_outage_event", ts, outage_ok)>> ELSE <<>>)

\* scheduler.rs:187, 275 - check_connectivity_resilient and its result.
LivenessCalls(online) == <<Call("check_connectivity_resilient", 0, online)>>

\* A scheduler that starts monitoring whatever the liveness check says.
NextStateEager(st, online) == "Monitoring"

\* scheduler.rs:187-193, 275-281 - the state after the liveness check.
NextState(st, online) ==
    IF st = "WaitingForInternet" /\ online THEN "Monitoring"
    ELSE IF st = "Monitoring" /\ ~online THEN "WaitingForInternet"
    ELSE st

\* A counter that is submitted without being advanced.
SubmittedCycleNumberStale(n) == n

\* scheduler.rs:197 - cycle_number += 1, before the Cycle row is built.
SubmittedCycleNumber(n) == n + 1

\* storage.rs:74-89 - the id the store returns for a new monitoring_cycles
\* row (a serial key; never 0).
NewCycleId(rows) == Cardinality(rows) + 1

\* consensus.update and insert_outage_event ahead of everything else.
TickCallsUpdateFirst(before, update, liveness) == update \o before \o liveness

\* scheduler.rs:131-194, 196-282 - the statements of a tick in program
\* order: the calls ahead of consensus.update, consensus.update with its
\* insert_outage_event, the liveness check.
TickCalls(before, update, liveness) == before \o update \o liveness

\* Only the metrics of warmed-up targets.
ConsensusInputWarmedOnly(metrics, streaks) ==
    SelectSeq(metrics, LAMBDA m : m.target_id \in DOMAIN streaks
                                   /\ Warmed(streaks[m.target_id]))

\* scheduler.rs:150, 256 - consensus.update(metrics.clone(), now): the
\* vector of the prober, whatever warmup.update returned.
ConsensusInput(metrics, streaks) == metrics

\* The part of a tick after its calls: the detector, the outage row, the
\* scheduler state and the bookkeeping.  `before` are the calls planned
\* ahead of consensus.update; the detector is updated only if none of
\* them ended the tick.
FinishTick(before, metrics, outage_ok, online) ==
    LET ts == cycle_timestamp + 1
    IN  /\ IF Len(MadeCalls(before)) = Len(before) /\ ~EndsTick(before[Len(before)])
           THEN /\ Update(ConsensusInput(metrics, warmup'), ts)
                /\ tick_log' = MadeCalls(TickCalls(before,
                                                   ConsensusCalls(ts, result', outage_ok),
                                                   LivenessCalls(online)))
                /\ emitted' = IF result' # None THEN Append(emitted, result'[1]) ELSE emitted
                /\ store_outages' =
                       IF result' # None /\ CallOk(tick_log', "insert_outage_event", ts)
                       THEN Append(store_outages, result'[1])
                       ELSE store_outages
           ELSE /\ UNCHANGED detectorVars
                /\ tick_log' = MadeCalls(before)
                /\ UNCHANGED <<emitted, store_outages>>
        /\ probed' = IF HasCall(tick_log', "ping_targets") THEN metrics ELSE probed
        /\ state' = IF HasCall(tick_log', "check_connectivity_resilient")
                    THEN NextState(state, online)
                    ELSE state
        /\ ticks' = ticks + 1
        /\ store_failures' = store_failures + WriteFailures(tick_log')
        /\ UNCHANGED <<validationVars, ping_count, livenessVars, warmupVars, fleetVars>>

\* ping.rs:28-124 - what ping_targets returns to the scheduler: one metric
\* per target, in target order, each with one of the probed statuses.
ProbedVectors ==
    {v \in CycleVectors :
        /\ Len(v) = Len(TargetList)
        /\ \A i \in 1..Len(v) : v[i].status \in ProbedStatuses}

\* The number of writes the store refuses in a run is in RefusalCounts.
Refused(oks) == Cardinality({i \in DOMAIN oks : ~oks[i]})

MayRefuse(n) == store_failures + n \in RefusalCounts

\* A Waiting tick that stamps its metrics with the id the next Cycle row
\* would get.
WaitingCycleIdNext == NewCycleId(store_cycles)

\* scheduler.rs:143 - the cycle_id a tick in WaitingForInternet passes to
\* ping_targets.
WaitingCycleId == 0

\* scheduler.rs:131-194 - one tick in WaitingForInternet, the prober
\* returning one of `vectors`.
WaitingCycle(vectors, limit) ==
    /\ state = "WaitingForInternet"
    /\ ticks < limit
    /\ UNCHANGED <<warmup, cycle_number, store_cycles, store_metrics, store_status,
                   cycles_submitted>>
    /\ \E metrics \in vectors, outage_ok \in BOOLEAN, online \in BOOLEAN :
          /\ MayRefuse(Refused(<<outage_ok>>))
          /\ FinishTick(<<Call("ping_targets", WaitingCycleId, TRUE)>>, metrics, outage_ok,
                        online)

\* scheduler.rs:196-282 - one tick in Monitoring, the prober returning one
\* of `vectors`.
MonitoringCycle(vectors, limit) ==
    /\ state = "Monitoring"
    /\ ticks < limit
    /\ \E metrics \in vectors, cycle_ok \in BOOLEAN, outage_ok \in BOOLEAN,
          online \in BOOLEAN :
       \E metric_oks \in [1..Len(metrics) -> BOOLEAN],
          status_oks \in [1..Len(metrics) -> BOOLEAN] :
          /\ MayRefuse(Refused(<<cycle_ok, outage_ok>> \o metric_oks \o status_oks))
          /\ LET number   == SubmittedCycleNumber(cycle_number)
                 cycle_id == IF cycle_ok THEN NewCycleId(store_cycles) ELSE 0
                 before   == <<Call("insert_cycle", number, cycle_ok),
                               Call("ping_targets", cycle_id, TRUE)>>
                               \o MetricInsertCalls(metrics, metric_oks)
                               \o StatusCalls(warmup, metrics, status_oks)
                 made     == MadeCalls(before)
                 pinged   == HasCall(made, "ping_targets")
                 n        == IF pinged THEN Len(metrics) ELSE 0
             IN  /\ cycle_number' = number
                 /\ cycles_submitted' = Append(cycles_submitted, number)
                 /\ store_cycles' =
                        IF cycle_ok
                        THEN store_cycles \cup {[id |-> cycle_id, cycle_number |-> number]}
                        ELSE store_cycles
                 /\ store_metrics' = store_metrics \cup
                        {[cycle_id |-> cycle_id, target_id |-> metrics[i].target_id] :
                             i \in {j \in 1..n :
                                      CallOk(made, "insert_connectivity_metric",
                                             metrics[j].target_id)}}
                 /\ warmup' = WarmupAfter(warmup, metrics,
                                  Cardinality({i \in 1..Len(made) : made[i].op = "warmup.update"}))
                 /\ store_status' = StatusAfter(store_status, metrics,
                                  [i \in 1..Len(metrics) |->
                                      CallOk(made, "set_target_status", metrics[i].target_id)],
                                  n)
                 /\ FinishTick(before, metrics, outage_ok, online)

\* scheduler.rs:131-194 - one tick in WaitingForInternet.
WaitingTick(vectors, limit) ==
    /\ WaitingCycle(vectors, limit)
    /\ UNCHANGED <<ping_tasks, ping_results>>

\* scheduler.rs:196-282 - one tick in Monitoring.
MonitoringTick(vectors, limit) ==
    /\ MonitoringCycle(vectors, limit)
    /\ UNCHANGED <<ping_tasks, ping_results>>

\* scheduler.rs:113-122 - run_scheduler entered with a detector whose
\* quorum the target list can reach and that carries the probe's id.
InitScheduler ==
    /\ SchedulerStart
    /\ NotValidated
    /\ DetectorNew(WindowDepths, 1..Len(TargetList), {Some(1)})

NextScheduler ==
    \/ WaitingTick(ProbedVectors, MaxTicks)
    \/ MonitoringTick(ProbedVectors, MaxTicks)

SpecScheduler == InitScheduler /\ [][NextScheduler]_vars

\* The same loop for one more tick, with every target answering alike and
\* the narrowest detector.
UniformVectors == {v \in ProbedVectors : \A i \in 1..Len(v) : v[i].status = v[1].status}

InitSchedulerLong ==
    /\ SchedulerStart
    /\ NotValidated
    /\ DetectorNew({1}, {1}, {Some(1)})

NextSchedulerLong ==
    \/ WaitingTick(UniformVectors, MaxTicks + 1)
    \/ MonitoringTick(UniformVectors, MaxTicks + 1)

SpecSchedulerLong == InitSchedulerLong /\ [][NextSchedulerLong]_vars

SpecClock == Init /\ [][NextClock]_vars

\* ------------------------------------------------------- ping_targets
\* ping.rs:62-81 - the outcome of one attempt: the ping exited with
\* success after `elapsed` ms, it failed, or it timed out.
Attempt(res, elapsed) == [res |-> res, elapsed |-> elapsed]

AttemptOutcomes ==
    {Attempt("success", e) : e \in ElapsedTimes}
        \cup {Attempt("failure", 0), Attempt("timeout", 0)}

\* ping.rs:64-81 - the counters success and timeout_count.
CountOf(attempts, res) == Cardinality({i \in 1..Len(attempts) : attempts[i].res = res})

\* ping.rs:66-68 - total_time.
RECURSIVE TotalTime(_, _)
TotalTime(attempts, n) ==
    IF n = 0 THEN 0
    ELSE TotalTime(attempts, n - 1)
           + (IF attempts[n].res = "success" THEN attempts[n].elapsed ELSE 0)

\* A classification that tests full success before full timeout and calls
\* any shortfall Down.
ClassifyAllOrNothing(success, timeout_count, n) ==
    IF success = n THEN "Up"
    ELSE IF timeout_count = n THEN "Timeout"
    ELSE "Down"

\* ping.rs:85-93 - the status of a metric.
Classify(success, timeout_count, n) ==
    IF timeout_count = n THEN "Timeout"
    ELSE IF success = n THEN "Up"
    ELSE IF success > 0 THEN "Degraded"
    ELSE "Down"

\* A mean that is reported only when some time was measured.
AvgTimeIfTimed(total_time, success) ==
    IF total_time > 0 THEN Some(<<total_time, success>>) ELSE None

\* ping.rs:95-99 - avg_time: total_time / success (kept as the pair of
\* numerator and denominator), absent when nothing succeeded.
AvgTime(total_time, success) ==
    IF success > 0 THEN Some(<<total_time, success>>) ELSE None

\* ping.rs:110 - 100 - ((success * 100) / ping_count), integer division.
PacketLoss(success, n) == 100 - ((success * 100) \div n)

\* ping.rs:101-112 - the ConnectivityMetric a task returns.
Measurement(target_id, attempts, n, cycle_id) ==
    [cycle_id |-> cycle_id,
     target_id |-> target_id,
     status |-> Classify(CountOf(attempts, "success"), CountOf(attempts, "timeout"), n),
     response_time_ms |-> AvgTime(TotalTime(attempts, Len(attempts)),
                                  CountOf(attempts, "success")),
     packet_loss_percent |-> Some(PacketLoss(CountOf(attempts, "success"), n))]

\* A join that gives up at the first faulted task.
CompletesBeforeFault(tasks, i, n) ==
    n # 0 /\ \A j \in 1..i : tasks[j] # None

\* ping.rs:39-113, 119 - a task yields a metric unless it faulted; with
\* ping_count = 0 the division of line 110 panics in every task.
Completes(tasks, i, n) == tasks[i] # None /\ n # 0

\* ping.rs:117-123 - the metrics of the tasks that completed, in target
\* order.
RECURSIVE Collected(_, _, _, _)
Collected(tasks, n, cycle_id, k) ==
    IF k = 0 THEN <<>>
    ELSE Collected(tasks, n, cycle_id, k - 1)
           \o (IF Completes(tasks, k, n)
               THEN <<Measurement(TargetList[k], tasks[k][1], n, cycle_id)>>
               ELSE <<>>)

\* ping.rs:28-124 - ping_targets.
PingTargets(tasks, n, cycle_id) == Collected(tasks, n, cycle_id, Len(TargetList))

\* The fields of the metrics that the detector and the scheduler read.
DetectorView(metrics) ==
    [i \in 1..Len(metrics) |-> ConnectivityMetric(metrics[i].target_id, metrics[i].status)]

\* The ways the tasks of one ping_targets call can go: each task faults or
\* makes n attempts.
TaskOutcomes(n) ==
    [1..Len(TargetList) -> {None} \cup {Some(a) : a \in [1..n -> AttemptOutcomes]}]

InitProber ==
    /\ SchedulerStart
    /\ DetectorNew({1}, {1}, {Some(1)})
    /\ num_targets = Len(TargetList)
    /\ validation = None
    /\ WarmupIdle
    /\ LivenessIdle
    /\ FleetIdle
    /\ ping_count \in 0..MaxPings
    /\ ping_tasks = <<>>
    /\ ping_results = <<>>

\* One call of ping_targets.
Ping ==
    /\ ping_tasks = <<>>
    /\ \E tasks \in TaskOutcomes(ping_count), cycle_id \in 0..1 :
          /\ ping_tasks' = tasks
          /\ ping_results' = PingTargets(tasks, ping_count, cycle_id)
    /\ UNCHANGED <<detectorVars, validationVars, schedulerVars, ping_count,
                   livenessVars, warmupVars, fleetVars>>

NextProber == Ping

SpecProber == InitProber /\ [][NextProber]_vars

\* ------------------------------------- run_scheduler with its prober
\* The tasks of the scheduler's ping_targets call: each faults, or its
\* attempts all succeed at once or all fail.
SchedulerTasks ==
    {tasks \in TaskOutcomes(1) :
        \A i \in 1..Len(tasks) :
            tasks[i] \in {None, Some(<<Attempt("success", 0)>>),
                          Some(<<Attempt("failure", 0)>>)}}

\* Both tasks with the same outcome.
UniformTasks == {tasks \in SchedulerTasks : \A i \in 1..Len(tasks) : tasks[i] = tasks[1]}

\* scheduler.rs:138-145 - a tick in WaitingForInternet; ping_targets is
\* called with the fictitious cycle_id.
WaitingTickProbed(task_sets, limit) ==
    \E tasks \in task_sets :
        /\ WaitingCycle({DetectorView(PingTargets(tasks, ping_count, 0))}, limit)
        /\ ping_tasks' = tasks
        /\ ping_results' = PingTargets(tasks, ping_count, tick_log'[1].arg)

\* scheduler.rs:216-223 - a tick in Monitoring; ping_targets is called
\* with the id insert_cycle returned, unless the tick was skipped.
MonitoringTickProbed(task_sets, limit) ==
    \E tasks \in task_sets :
        /\ MonitoringCycle({DetectorView(PingTargets(tasks, ping_count, 0))}, limit)
        /\ ping_tasks' = IF HasCall(tick_log', "ping_targets") THEN tasks ELSE ping_tasks
        /\ ping_results' = IF HasCall(tick_log', "ping_targets")
                           THEN PingTargets(tasks, ping_count, tick_log'[2].arg)
                           ELSE ping_results

NextSchedulerProbed ==
    \/ WaitingTickProbed(SchedulerTasks, MaxTicks - 1)
    \/ MonitoringTickProbed(SchedulerTasks, MaxTicks - 1)

SpecSchedulerProbed == InitSchedulerLong /\ [][NextSchedulerProbed]_vars

\* The ticks of a run in which the tasks of a cycle all end alike.
NextSchedulerProbedLong ==
    \/ WaitingTickProbed(UniformTasks, MaxTicks)
    \/ MonitoringTickProbed(UniformTasks, MaxTicks)

SpecSchedulerProbedLong == InitSchedulerLong /\ [][NextSchedulerProbedLong]_vars

\* ------------------------------------------ main: one scheduler per probe
\* main.rs:54-62 - the probes listed from the store.
ProbeList == <<1, 2>>

Probes == {ProbeList[i] : i \in 1..Len(ProbeList)}

\* One warmup map for all the schedulers.
WarmupOfShared(p) == ProbeList[1]

\* scheduler.rs:121 - warmup is a local of run_scheduler, and main.rs:65-77
\* spawns one run_scheduler per probe: the warmup map probe p's scheduler
\* uses is its own.
WarmupOf(p) == p

\* One detector for all the schedulers.
DetectorOfShared(p) == ProbeList[1]

\* The ConsensusState handed to probe p's run_scheduler (scheduler.rs:118):
\* one per probe.
DetectorOf(p) == p

\* main.rs:64-78 - the schedulers just spawned: fresh detectors of one
\* configuration, empty warmup maps, no cycle yet.
InitFleet ==
    /\ SchedulerStart
    /\ DetectorNew({1}, {1}, {Some(1)})
    /\ num_targets = Len(TargetList)
    /\ validation = None
    /\ ProberIdle
    /\ WarmupIdle
    /\ LivenessIdle
    /\ \E w \in WindowDepths :
          fleet = Some([ fail_threshold |-> w,
                         consensus |-> 1,
                         detectors |-> [d \in {DetectorOf(p) : p \in Probes} |->
                                           [history |-> <<>>, current_outage |-> None]],
                         warmups |-> [d \in {WarmupOf(p) : p \in Probes} |-> <<>>],
                         cycles |-> [p \in Probes |-> <<>>],
                         returned |-> [p \in Probes |-> <<>>],
                         clock |-> 0 ])

\* scheduler.rs:216-262 - one Monitoring cycle of probe p's scheduler, as
\* far as its warmup map and its detector go: warmup.update per metric,
\* then consensus.update under the lock.  The clock reads one tick later at
\* every cycle of any scheduler.
FleetCycle(p) ==
    /\ fleet # None
    /\ fleet[1].clock < MaxFleetCycles
    /\ LET f == fleet[1]
           det == f.detectors[DetectorOf(p)]
           ts == f.clock + 1
       IN  \E cycle \in ProbedVectors :
             \E order \in Orderings(MajorityDown(
                              PushHistory(det.history, f.fail_threshold, cycle),
                              f.fail_threshold)) :
               LET out == UpdateOutcome(det.history, f.fail_threshold, f.consensus,
                                        det.current_outage, Some(p), cycle, ts, order)
               IN  fleet' = Some([f EXCEPT
                       !.warmups[WarmupOf(p)] = WarmupAfter(@, cycle, Len(cycle)),
                       !.detectors[DetectorOf(p)] =
                           [history |-> out.history, current_outage |-> out.current_outage],
                       !.cycles[p] = Append(@, [cycle |-> cycle, ts |-> ts, order |-> order]),
                       !.returned[p] = Append(@, out.result),
                       !.clock = ts])
    /\ UNCHANGED <<detectorVars, validationVars, schedulerVars, proberVars, livenessVars,
                   warmupVars>>

NextFleet == \E p \in Probes : FleetCycle(p)

SpecFleet == InitFleet /\ [][NextFleet]_vars

\* ------------------------------------------- TargetWarmupState::update
\* types.rs:211-216 - TargetWarmupState::new(3) and nothing else.
InitWarmup ==
    /\ SchedulerStart
    /\ DetectorNew({1}, {1}, {Some(1)})
    /\ NotValidated

\* types.rs:220-229 (and warmup.rs:24-32) - one call of update.
WarmupCall ==
    /\ Len(warmup_calls) < MaxWarmupCalls
    /\ \E t \in Targets, is_success \in BOOLEAN :
          /\ warmup' = Put(warmup, t, StreakAfter(warmup, t, is_success))
          /\ warmed' = Some(Warmed(warmup'[t]))
          /\ warmup_calls' = Append(warmup_calls,
                                    [target_id |-> t, is_success |-> is_success])
    /\ UNCHANGED <<detectorVars, validationVars, proberVars, livenessVars, fleetVars,
                   state, cycle_number, store_cycles, store_metrics, store_status,
                   store_outages, tick_log, probed, ticks, cycles_submitted, emitted,
                   store_failures>>

NextWarmup == WarmupCall

SpecWarmup == InitWarmup /\ [][NextWarmup]_vars

\* ------------------------------------------- check_connectivity_resilient
\* scheduler.rs:34 - tcp_ports.
TcpPorts == <<53, 80, 443>>

\* One attempt of the liveness check and whether it succeeded.
Try(method, target, port, ok) ==
    [method |-> method, target |-> target, port |-> port, ok |-> ok]

\* scheduler.rs:35-60 - a TCP connect per target and port, targets outermost.
TcpPlan(tcp) ==
    [k \in 1..(Len(TargetList) * Len(TcpPorts)) |->
        LET i == ((k - 1) \div Len(TcpPorts)) + 1
            j == ((k - 1) % Len(TcpPorts)) + 1
        IN  Try("tcp", TargetList[i], TcpPorts[j], tcp[i][j])]

\* scheduler.rs:63-83 - a reverse lookup per target, if a resolver could
\* be built.
DnsPlan(resolver_ok, dns) ==
    IF resolver_ok
    THEN [i \in 1..Len(TargetList) |-> Try("dns", TargetList[i], 0, dns[i])]
    ELSE <<>>

\* scheduler.rs:86-98 - one ping round over all targets; it succeeds if
\* any metric is Up.
IcmpPlan(results) ==
    <<Try("icmp", 0, 0, \E i \in 1..Len(results) : results[i].status = "Up")>>

\* The reverse lookups ahead of the TCP connects.
LivenessPlanDnsFirst(tcp_plan, dns_plan, icmp_plan) == dns_plan \o tcp_plan \o icmp_plan

\* scheduler.rs:32-105 - the methods in program order.
LivenessPlan(tcp_plan, dns_plan, icmp_plan) == tcp_plan \o dns_plan \o icmp_plan

\* scheduler.rs:44, 73, 97 - `return true` at the first success.
Tried(plan) ==
    LET hits == {k \in 1..Len(plan) : plan[k].ok}
    IN  IF hits = {} THEN plan
        ELSE SubSeq(plan, 1, CHOOSE k \in hits : \A h \in hits : k <= h)

\* scheduler.rs:86-91 - the metrics of the liveness ping.
LivenessPing(env) == PingTargets(env.tasks, LivenessPingCount, LivenessCycleId)

LivenessAttempts(env) ==
    Tried(LivenessPlan(TcpPlan(env.tcp), DnsPlan(env.resolver_ok, env.dns),
                       IcmpPlan(LivenessPing(env))))

\* scheduler.rs:44, 73, 97, 104 - true if an attempt succeeded.
LivenessReturns(attempts) == attempts[Len(attempts)].ok

\* The metrics of the liveness ping written to connectivity_metrics.
LivenessRowsFromPing(results) ==
    {[cycle_id |-> results[i].cycle_id, target_id |-> results[i].target_id] :
        i \in 1..Len(results)}

\* scheduler.rs:32-105 - the rows check_connectivity_resilient writes:
\* none (it has no handle on the store).
LivenessRows(results) == {}

\* Every network: each connect and lookup answers or not, each ping task
\* faults or makes its one attempt.
LivenessEnvs ==
    [tcp : [1..Len(TargetList) -> [1..Len(TcpPorts) -> BOOLEAN]],
     resolver_ok : BOOLEAN,
     dns : [1..Len(TargetList) -> BOOLEAN],
     tasks : TaskOutcomes(LivenessPingCount)]

\* The networks in which every target answers a method alike.
UniformEnvs ==
    {e \in LivenessEnvs :
        /\ \A i \in 1..Len(TargetList) :
              /\ \A j \in 1..Len(TcpPorts) : e.tcp[i][j] = e.tcp[1][1]
              /\ e.dns[i] = e.dns[1]
              /\ e.tasks[i] = e.tasks[1]
        /\ e.tasks[1] \in {None, Some(<<Attempt("success", 0)>>),
                            Some(<<Attempt("timeout", 0)>>)}}

\* One call of check_connectivity_resilient in the network env.
CheckConnectivity(env) ==
    /\ liveness_result = None
    /\ liveness_env' = env
    /\ liveness_attempts' = LivenessAttempts(env)
    /\ liveness_result' = Some(LivenessReturns(liveness_attempts'))
    /\ ping_results' = IF \E k \in 1..Len(liveness_attempts') :
                              liveness_attempts'[k].method = "icmp"
                       THEN LivenessPing(env)
                       ELSE ping_results
    /\ store_metrics' = store_metrics \cup LivenessRows(ping_results')
    /\ UNCHANGED <<detectorVars, validationVars, ping_count, ping_tasks, warmupVars,
                   fleetVars, state, warmup, cycle_number, store_cycles, store_status,
                   store_outages, tick_log, probed, ticks, cycles_submitted, emitted,
                   store_failures>>

\* The check applied to every network.
InitLiveness ==
    /\ SchedulerStart
    /\ DetectorNew({1}, {1}, {Some(1)})
    /\ num_targets = Len(TargetList)
    /\ validation = None
    /\ ProberIdle
    /\ WarmupIdle
    /\ FleetIdle
    /\ liveness_env \in LivenessEnvs
    /\ liveness_attempts = <<>>
    /\ liveness_result = None

NextLiveness == CheckConnectivity(liveness_env)

SpecLiveness == InitLiveness /\ [][NextLiveness]_vars

\* The check called once at any point of a scheduler's run.
NextLivenessFrame ==
    \/ WaitingTick(UniformVectors, MaxTicks)
    \/ MonitoringTick(UniformVectors, MaxTicks)
    \/ \E env \in UniformEnvs : CheckConnectivity(env)

SpecLivenessFrame == InitSchedulerLong /\ [][NextLivenessFrame]_vars

\* ------------------------------------------------------------- properties
\* The quorum set M of the latest update (computed on the window it left).
M == MajorityDown(history, fail_threshold)

\* The most recent event the detector has returned, if any.
LatestEmission == IF result # None THEN result ELSE last_emitted

IsOpenEvent(e) == e.end_time = None

Min(a, b) == IF a <= b THEN a ELSE b

\* The targets with a Down or Timeout metric in cycle i of the window.
FailedInCycle(i) ==
    {history[i][j].target_id : j \in {k \in 1..Len(history[i]) :
                                        history[i][k].status \in {"Down", "Timeout"}}}

\* The targets that failed in every one of W windowed cycles.
FailedInEveryCycle ==
    {t \in Targets : /\ Len(history) = fail_threshold
                     /\ \A i \in 1..Len(history) : t \in FailedInCycle(i)}

\* C1: the open-event slot is empty or holds one event with no end_time,
\* and it is occupied exactly when the latest event returned is an open
\* (then by that very event): the detector has at most one open event.
C1_AtMostOneOpenEvent ==
    /\ Len(current_outage) <= 1
    /\ current_outage # None =>
          /\ current_outage[1].end_time = None
          /\ current_outage[1].duration_seconds = None
          /\ LatestEmission = current_outage
    /\ current_outage = None =>
          (LatestEmission = None \/ ~IsOpenEvent(LatestEmission[1]))

\* An outage is open again after an earlier one was closed.
C1_Witness ==
    /\ current_outage # None
    /\ last_emitted # None
    /\ ~IsOpenEvent(last_emitted[1])

\* C2: an update that leaves |M| >= Q while no event was open returns a new
\* event with start_time = cycle_timestamp, no end_time, reason
\* "consensus_reached", affected_targets = exactly M, affected_probes =
\* [probe_id] when the probe id is known, consensus_level = |M|, and that
\* event becomes the open event.
C2_OpenWhenQuorumReached ==
    [][ (current_outage = None /\ Cardinality(M') >= consensus) =>
          /\ result' # None
          /\ LET e == result'[1]
             IN  /\ e.start_time = cycle_timestamp'
                 /\ e.end_time = None
                 /\ e.duration_seconds = None
                 /\ e.reason = Some("consensus_reached")
                 /\ Range(e.affected_targets) = M'
                 /\ Len(e.affected_targets) = Cardinality(M')
                 /\ M' = FailedInEveryCycle'
                 /\ e.affected_probes =
                       (IF probe_id = None THEN None ELSE Some(<<probe_id[1]>>))
                 /\ e.consensus_level = Some(Cardinality(M'))
          /\ current_outage' = result' ]_vars

\* W = 2, Q = 2: the second of two cycles with targets 1 and 2 failing opens
\* an outage for {1, 2} at level 2, stamped with that cycle's timestamp.
C2_Witness ==
    /\ fail_threshold = 2 /\ consensus = 2 /\ updates = 2
    /\ probe_id # None
    /\ result # None
    /\ result[1].end_time = None
    /\ Range(result[1].affected_targets) = {1, 2}
    /\ result[1].consensus_level = Some(2)
    /\ result[1].start_time = cycle_timestamp
    /\ result[1].affected_probes = Some(<<probe_id[1]>>)
    /\ current_outage = result

\* C3: an update that leaves |M| < Q while an event is open returns that
\* event closed: end_time = cycle_timestamp, duration_seconds = the whole
\* seconds of end_time - start_time rounded down, end_time >= start_time
\* (the clock does not go back), and the slot is empty afterwards.
C3_CloseWhenQuorumLost ==
    [][ (current_outage # None /\ Cardinality(M') < consensus) =>
          /\ result' # None
          /\ LET e == result'[1]
                 o == current_outage[1]
             IN  /\ e.end_time = Some(cycle_timestamp')
                 /\ e.duration_seconds # None
                 /\ e.duration_seconds[1] * TicksPerSecond <= e.end_time[1] - e.start_time
                 /\ e.end_time[1] - e.start_time < (e.duration_seconds[1] + 1) * TicksPerSecond
                 /\ e.end_time[1] >= e.start_time
                 /\ [e EXCEPT !.end_time = None, !.duration_seconds = None] = o
          /\ current_outage' = None ]_vars

\* A close one second and one tick after the open: the duration is 1.
C3_Witness ==
    /\ result # None
    /\ result[1].end_time # None
    /\ result[1].end_time[1] - result[1].start_time = TicksPerSecond + 1
    /\ result[1].duration_seconds = Some(1)
    /\ result[1].end_time = Some(cycle_timestamp)
    /\ current_outage = None

\* C4: an update that leaves |M| >= Q while an event is already open
\* returns None and leaves the open event unchanged, at every such cycle.
C4_NoDuplicateWhileOpen ==
    [][ (current_outage # None /\ Cardinality(M') >= consensus) =>
          /\ result' = None
          /\ current_outage' = current_outage ]_vars

\* W = 2, Q = 1: Down, Down opened an outage for target 1 at the second
\* update; the third Down returned nothing and the event is still open.
C4_Witness ==
    /\ fail_threshold = 2 /\ consensus = 1 /\ updates = 3
    /\ \A i \in 1..2 : ConnectivityMetric(1, "Down") \in Range(history[i])
    /\ result = None
    /\ current_outage # None
    /\ current_outage[1].affected_targets = <<1>>
    /\ current_outage[1].start_time = cycle_timestamp - 1
    /\ last_emitted = current_outage

\* C5: emissions alternate: the event returned next after an open (reason
\* "consensus_reached") is a close whose reason is "consensus_loss" and whose
\* end_time >= start_time.
C5_NextAfterOpenIsLossClose ==
    (result # None /\ last_emitted # None /\ IsOpenEvent(last_emitted[1])
        /\ last_emitted[1].reason = Some("consensus_reached")) =>
        /\ ~IsOpenEvent(result[1])
        /\ result[1].reason = Some("consensus_loss")
        /\ result[1].end_time[1] >= result[1].start_time

\* C6: the quorum set M is exactly the set of targets whose status was Down
\* or Timeout in every one of W windowed cycles (Timeout counts like Down),
\* and an opening event lists exactly those targets.
C6_QuorumSetIsFailedInEveryCycle ==
    /\ M = FailedInEveryCycle
    /\ (result # None /\ IsOpenEvent(result[1])) =>
          Range(result[1].affected_targets) = FailedInEveryCycle

\* W = 2, Q = 1: Timeout, Timeout for target 1 opens an outage for target 1.
C6_Witness ==
    /\ fail_threshold = 2 /\ consensus = 1 /\ updates = 2
    /\ \A i \in 1..2 : ConnectivityMetric(1, "Timeout") \in Range(history[i])
    /\ result # None
    /\ IsOpenEvent(result[1])
    /\ result[1].affected_targets = <<1>>

\* C7: while every metric of every cycle so far was Up or Degraded, no
\* target has a failure count and no event has been returned.
C7_NoEventWithoutFailures ==
    all_up_or_degraded =>
        /\ DOMAIN DownCounts(history) = {}
        /\ result = None
        /\ last_emitted = None
        /\ current_outage = None

\* W = 1, Q = 1: cycles of Degraded and Up metrics only, and no event.
C7_Witness ==
    /\ all_up_or_degraded
    /\ fail_threshold = 1 /\ consensus = 1 /\ updates >= 2
    /\ ConnectivityMetric(1, "Degraded") \in Range(cycle_results)
    /\ Len(cycle_results) = Len(TargetList)
    /\ result = None

\* C8: every update leaves in the window exactly the most recent min(k, W)
\* cycle vectors in arrival order, k being the number of updates so far:
\* the oldest is dropped before the new one is appended once W are held.
C8_WindowIsLastCycles ==
    [][ LET arrived == Append(history, cycle_results')
            n == Min(updates', fail_threshold)
        IN  /\ Len(history') = n
            /\ Len(history') <= fail_threshold
            /\ history' = SubSeq(arrived, Len(arrived) - n + 1, Len(arrived)) ]_vars

\* W = 2: after a third update the window holds the second and third cycle.
C8_Witness ==
    /\ fail_threshold = 2 /\ updates = 3
    /\ Len(history) = 2
    /\ history[2] = cycle_results
    /\ history[1] # history[2]

\* C9 as stated: |M| <= target_count, and the consensus_level of every
\* returned event is at most |M| of the update that returned it.
C9_LevelAtMostQuorumSet ==
    /\ Cardinality(M) <= Cardinality(Targets)
    /\ result # None => result[1].consensus_level[1] <= Cardinality(M)

\* C9 amended: |M| <= target_count, and the consensus_level of every event
\* returned by an update that opens an outage is at most |M| of that update.
C9_OpenLevelAtMostQuorumSet ==
    /\ Cardinality(M) <= Cardinality(Targets)
    /\ (result # None /\ IsOpenEvent(result[1])) =>
          /\ result[1].consensus_level # None
          /\ result[1].consensus_level[1] <= Cardinality(M)

\* An outage opens for one of two targets while the other target has a
\* failure in the window without being in M.
C9_Witness ==
    /\ result # None
    /\ IsOpenEvent(result[1])
    /\ Cardinality(M) = 1
    /\ Cardinality(DOMAIN DownCounts(history)) = 2
    /\ result[1].consensus_level = Some(1)

\* C10: a target with a metric that is neither Down nor Timeout in a cycle
\* of the window is not in M, at the update that brought the cycle and at
\* every later update that still holds it; and an update that so leaves
\* |M| < Q while an outage is open closes the outage.
C10_SuccessClearsTarget ==
    [][ /\ \A i \in 1..Len(history') : \A j \in 1..Len(history'[i]) :
              history'[i][j].status \notin {"Down", "Timeout"} =>
                  history'[i][j].target_id \notin M'
        /\ (current_outage # None /\ Cardinality(M') < consensus) =>
              /\ current_outage' = None
              /\ result' # None
              /\ result'[1].end_time = Some(cycle_timestamp') ]_vars

\* W = 2, Q = 1: an outage for target 1 is closed by one Up cycle of target
\* 1 while the window still holds a cycle in which it was Down.
C10_Witness ==
    /\ fail_threshold = 2 /\ consensus = 1
    /\ Len(history) = 2
    /\ ConnectivityMetric(1, "Down") \in Range(history[1])
    /\ ConnectivityMetric(1, "Up") \in Range(history[2])
    /\ result # None
    /\ ~IsOpenEvent(result[1])
    /\ result[1].affected_targets = <<1>>
    /\ current_outage = None

\* C11: validate_params returns an error when W = 0, when Q = 0 and when
\* Q > the number of targets, Ok for every other (W, Q, number of targets),
\* and the call leaves the detector as it was.
C11_ValidationRejectsBadParams ==
    [][ /\ validation' # None
        /\ (validation'[1] = "Ok") <=>
              (fail_threshold >= 1 /\ consensus >= 1 /\ consensus <= num_targets)
        /\ validation'[1] \in {"Ok", "Err: fail_threshold", "Err: consensus",
                                "Err: consensus > targets"}
        /\ detectorVars' = detectorVars ]_vars

\* Q equal to the number of targets is accepted.
C11_Witness ==
    /\ validation = Some("Ok")
    /\ consensus = num_targets
    /\ fail_threshold = 1

\* ------------------------------------------------ the scheduler's ticks
\* The latest tick ran in Monitoring: it submitted a Cycle row.
MonitoringLog == HasCall(tick_log, "insert_cycle")

\* The latest tick ran in WaitingForInternet.
WaitingLog == tick_log # <<>> /\ ~MonitoringLog

\* The positions of the calls of one callee in a tick.
CallsOf(log, op) == {k \in 1..Len(log) : log[k].op = op}

EndsWithLiveness(log, online) ==
    log # <<>> /\ log[Len(log)] = Call("check_connectivity_resilient", 0, online)

FailedWriteIn(log, ops) == \E k \in 1..Len(log) : log[k].op \in ops /\ ~log[k].ok

Recorded(e) == \E j \in 1..Len(store_outages) : store_outages[j] = e

\* C12: the scheduler starts in WaitingForInternet; a step changes the
\* state from WaitingForInternet to Monitoring exactly when the tick ended
\* with a liveness check that returned true, and from Monitoring to
\* WaitingForInternet exactly when it ended with one that returned false;
\* every other step leaves the state as it was.
C12_TransitionsFollowLiveness ==
    /\ state = "WaitingForInternet"
    /\ [][ /\ state' \in SchedulerState
           /\ (state = "WaitingForInternet" /\ state' = "Monitoring")
                 <=> (state = "WaitingForInternet" /\ EndsWithLiveness(tick_log', TRUE))
           /\ (state = "Monitoring" /\ state' = "WaitingForInternet")
                 <=> (state = "Monitoring" /\ EndsWithLiveness(tick_log', FALSE)) ]_vars

\* A Monitoring tick has just ended with a failed liveness check.
C12_Witness ==
    /\ state = "WaitingForInternet"
    /\ MonitoringLog
    /\ EndsWithLiveness(tick_log, FALSE)

\* C13: a tick in WaitingForInternet calls the prober (cycle id 0), then
\* consensus.update with the vector the prober returned, then
\* insert_outage_event with the returned event when there is one, and only
\* then the liveness check; an accepted insert leaves that event as the
\* newest outage row.
C13_WaitingTickFeedsAndPersists ==
    WaitingLog =>
        /\ tick_log[1] = Call("ping_targets", 0, TRUE)
        /\ Len(tick_log) >= 3
        /\ tick_log[2] = Call("consensus.update", cycle_timestamp, result # None)
        /\ cycle_results = probed
        /\ tick_log[Len(tick_log)].op = "check_connectivity_resilient"
        /\ IF result # None
           THEN /\ Len(tick_log) = 4
                /\ tick_log[3].op = "insert_outage_event"
                /\ tick_log[3].ok =>
                      /\ store_outages # <<>>
                      /\ store_outages[Len(store_outages)] = result[1]
           ELSE Len(tick_log) = 3

\* A close emitted in WaitingForInternet is the newest outage row.
C13_Witness ==
    /\ WaitingLog
    /\ result # None
    /\ ~IsOpenEvent(result[1])
    /\ tick_log[3] = Call("insert_outage_event", cycle_timestamp, TRUE)
    /\ store_outages[Len(store_outages)] = result[1]

\* C14: a tick in WaitingForInternet makes one insert_connectivity_metric
\* call per metric the prober returned, before consensus.update.
C14_WaitingTickPersistsMetrics ==
    WaitingLog =>
        \A i \in 1..Len(probed) :
            \E k \in CallsOf(tick_log, "insert_connectivity_metric") :
                /\ tick_log[k].arg = probed[i].target_id
                /\ \A u \in CallsOf(tick_log, "consensus.update") : k < u

\* C15: in a Monitoring tick that reached the prober, every metric insert
\* (one per returned metric) comes after the prober and before
\* consensus.update, and the insert of an emitted event follows
\* consensus.update within the same tick, hence before the prober of the
\* next cycle.
C15_MonitoringOrder ==
    (MonitoringLog /\ HasCall(tick_log, "ping_targets")) =>
        /\ Cardinality(CallsOf(tick_log, "ping_targets")) = 1
        /\ Cardinality(CallsOf(tick_log, "consensus.update")) = 1
        /\ \A p \in CallsOf(tick_log, "ping_targets") :
           \A u \in CallsOf(tick_log, "consensus.update") :
              /\ \A i \in 1..Len(probed) :
                    \E k \in CallsOf(tick_log, "insert_connectivity_metric") :
                        tick_log[k].arg = probed[i].target_id
              /\ \A k \in CallsOf(tick_log, "insert_connectivity_metric") : p < k /\ k < u
              /\ \A k \in CallsOf(tick_log, "insert_outage_event") : k = u + 1
              /\ tick_log[u].ok <=> HasCall(tick_log, "insert_outage_event")
              /\ tick_log[u].ok <=> result # None

\* The second of two Monitoring cycles, both of which emitted an event.
C15_Witness ==
    /\ MonitoringLog
    /\ Cardinality(store_cycles) = 2
    /\ HasCall(tick_log, "insert_outage_event")
    /\ Len(emitted) >= 2
    /\ Len(store_outages) >= 2

\* C16: the cycle numbers passed to insert_cycle start at 1 and each is
\* greater than the one before.
C16_CycleNumbersIncrease ==
    /\ cycles_submitted # <<>> => cycles_submitted[1] = 1
    /\ \A i \in 2..Len(cycles_submitted) : cycles_submitted[i] > cycles_submitted[i - 1]

\* Two Cycle rows submitted around WaitingForInternet ticks, the second
\* refused by the store.
C16_Witness ==
    /\ Len(cycles_submitted) = 2
    /\ ticks = MaxTicks + 1
    /\ tick_log = <<Call("insert_cycle", 2, FALSE)>>
    /\ Cardinality(store_cycles) = 1

\* C17: a Monitoring tick whose insert_cycle failed makes no other call and
\* changes neither the detector, the warmup gate, the metric, status and
\* outage rows nor the scheduler state; and every metric row carries the
\* id of a Cycle row.
C17_FailedCycleInsertSkipsTick ==
    [][ /\ (tick_log'[1].op = "insert_cycle" /\ ~tick_log'[1].ok) =>
              /\ Len(tick_log') = 1
              /\ UNCHANGED <<detectorVars, warmup, probed, store_metrics, store_status,
                             store_outages, emitted, state>>
        /\ \A r \in store_metrics' : \E c \in store_cycles' : c.id = r.cycle_id ]_vars

\* A tick skipped after an earlier cycle persisted its metrics.
C17_Witness ==
    /\ tick_log = <<Call("insert_cycle", 2, FALSE)>>
    /\ store_metrics # {}
    /\ state = "Monitoring"

\* C18: a tick in which the insert of a metric, a target status or an
\* outage event failed still attempts every metric insert and keeps the
\* accepted ones, updates the warmup gate and the detector with the whole
\* vector, ends with the liveness check and is counted as a finished tick.
C18_FailedWriteDoesNotAbort ==
    [][ FailedWriteIn(tick_log', {"insert_connectivity_metric", "set_target_status",
                                  "insert_outage_event"}) =>
          /\ tick_log'[1].op = "insert_cycle" =>
                /\ \A i \in 1..Len(probed') :
                      \E k \in CallsOf(tick_log', "insert_connectivity_metric") :
                          /\ tick_log'[k].arg = probed'[i].target_id
                          /\ tick_log'[k].ok =>
                                [cycle_id |-> tick_log'[2].arg,
                                 target_id |-> probed'[i].target_id] \in store_metrics'
                /\ warmup' = WarmupAfter(warmup, probed', Len(probed'))
                /\ Cardinality(CallsOf(tick_log', "set_target_status")) = Len(probed')
          /\ cycle_results' = probed'
          /\ history' = PushHistory(history, fail_threshold, probed')
          /\ updates' = updates + 1
          /\ tick_log'[Len(tick_log')].op = "check_connectivity_resilient"
          /\ ticks' = ticks + 1 ]_vars

\* The first metric insert of a cycle failed and the second was kept.
C18_Witness ==
    /\ MonitoringLog
    /\ Len(tick_log) >= 3
    /\ tick_log[3] = Call("insert_connectivity_metric", TargetList[1], FALSE)
    /\ [cycle_id |-> tick_log[2].arg, target_id |-> TargetList[2]] \in store_metrics
    /\ EndsWithLiveness(tick_log, TRUE)
    /\ cycle_results = probed

\* C19: after a tick in which the store accepted every write, every event
\* the detector has returned to the scheduler has an outage row.
C19_EmittedEventsAreRecorded ==
    (tick_log # <<>> /\ ~FailedWriteIn(tick_log, StoreWrites)) =>
        \A i \in 1..Len(emitted) : Recorded(emitted[i])

\* C20: at most one outage row has no end_time, and none whose close (the
\* row with the same start_time and an end_time) is in the store.
C20_AtMostOneOpenRecord ==
    LET open == {j \in 1..Len(store_outages) : store_outages[j].end_time = None}
    IN  /\ Cardinality(open) <= 1
        /\ \A j \in open :
              ~\E k \in 1..Len(store_outages) :
                  /\ store_outages[k].end_time # None
                  /\ store_outages[k].start_time = store_outages[j].start_time

\* ------------------------------------------------- the liveness check
MethodRank(method) == IF method = "tcp" THEN 1 ELSE IF method = "dns" THEN 2 ELSE 3

TriesOf(attempts, method) == {k \in 1..Len(attempts) : attempts[k].method = method}

\* C21: the attempts of a liveness check are TCP connects (target by
\* target, ports 53, 80, 443 in turn), then reverse lookups target by
\* target, then one ping round; no attempt follows a successful one, no
\* attempt is skipped before a later one, the check returns true exactly
\* when its last attempt succeeded, and false only after every connect,
\* every lookup the resolver allowed and the ping round have failed.
C21_LivenessOrderAndShortCircuit ==
    liveness_result # None =>
        LET a == liveness_attempts
            tcp == TriesOf(a, "tcp")
            dns == TriesOf(a, "dns")
            icmp == TriesOf(a, "icmp")
        IN  /\ a # <<>>
            /\ \A k \in 1..(Len(a) - 1) :
                  /\ ~a[k].ok
                  /\ MethodRank(a[k].method) <= MethodRank(a[k + 1].method)
            /\ liveness_result[1] = a[Len(a)].ok
            /\ \A k \in tcp :
                  /\ a[k].target = TargetList[((k - 1) \div 3) + 1]
                  /\ a[k].port = <<53, 80, 443>>[((k - 1) % 3) + 1]
            /\ \A k \in dns : a[k].target = TargetList[k - Cardinality(tcp)]
            /\ Cardinality(icmp) <= 1
            /\ (dns # {} \/ icmp # {}) => Cardinality(tcp) = 3 * Len(TargetList)
            /\ icmp # {} => Cardinality(dns) \in {0, Len(TargetList)}
            /\ (icmp # {} /\ dns = {}) => ~liveness_env.resolver_ok
            /\ ~liveness_result[1] =>
                  /\ icmp # {}
                  /\ \A i \in 1..Len(TargetList) :
                        /\ \A j \in 1..3 : ~liveness_env.tcp[i][j]
                        /\ liveness_env.resolver_ok => ~liveness_env.dns[i]
                  /\ \A i \in 1..Len(ping_results) : ping_results[i].status # "Up"

\* A reverse lookup of the second target succeeded after every connect
\* and the first lookup failed; the ping round was not run although a
\* target would have answered it.
C21_Witness ==
    /\ liveness_result = Some(TRUE)
    /\ Len(liveness_attempts) = 3 * Len(TargetList) + 2
    /\ liveness_attempts[Len(liveness_attempts)] = Try("dns", TargetList[2], 0, TRUE)
    /\ liveness_env.tasks[1] = Some(<<Attempt("success", 0)>>)
    /\ ping_results = <<>>

\* C22: a liveness check changes no Cycle, metric, target status or
\* outage row, no warmup streak and no field of the detector, whatever it
\* returns, and the metrics of its ping round carry cycle_id 0.
C22_LivenessChangesNoState ==
    [][ liveness_result' # liveness_result =>
          /\ UNCHANGED <<store_cycles, store_metrics, store_status, store_outages,
                         warmup, detectorVars, cycle_number, emitted>>
          /\ \A i \in 1..Len(ping_results') : ping_results'[i].cycle_id = 0 ]_vars

\* A check that fell back to the ping round and failed, after a
\* Monitoring cycle had stored metrics and an outage had opened.
C22_Witness ==
    /\ liveness_result = Some(FALSE)
    /\ ping_results # <<>>
    /\ store_metrics # {}
    /\ current_outage # None
    /\ store_outages # <<>>

\* ------------------------------------------------------- the warmup gate
\* The successes of target t since its last failure (or since the
\* start) among the first n calls.
RECURSIVE SuccessesSinceFailure(_, _, _)
SuccessesSinceFailure(calls, t, n) ==
    IF n = 0 THEN 0
    ELSE IF calls[n].target_id # t THEN SuccessesSinceFailure(calls, t, n - 1)
    ELSE IF calls[n].is_success THEN 1 + SuccessesSinceFailure(calls, t, n - 1)
    ELSE 0

StreakOf(streaks, t) == IF t \in DOMAIN streaks THEN streaks[t] ELSE 0

\* C23: update(t, true) adds one to t's streak (0 if absent),
\* update(t, false) sets it to 0, no other target's streak changes, and
\* the call returns true exactly when the new streak is at least
\* required_streak, that is exactly when t has had required_streak or
\* more successes since its last failure.
C23_WarmupStreak ==
    [][ LET call == warmup_calls'[Len(warmup_calls')]
            t == call.target_id
        IN  /\ DOMAIN warmup' = DOMAIN warmup \cup {t}
            /\ call.is_success => warmup'[t] = StreakOf(warmup, t) + 1
            /\ ~call.is_success => warmup'[t] = 0
            /\ \A u \in DOMAIN warmup \ {t} : warmup'[u] = warmup[u]
            /\ warmed' = Some(warmup'[t] >= RequiredStreak)
            /\ warmed'[1] <=>
                  SuccessesSinceFailure(warmup_calls', t, Len(warmup_calls'))
                      >= RequiredStreak ]_vars

\* Target 1 failed, then succeeded three times with a call for target 2
\* in between, and is warmed.
C23_Witness ==
    /\ warmed = Some(TRUE)
    /\ Len(warmup_calls) = 5
    /\ warmup_calls[1] = [target_id |-> 1, is_success |-> FALSE]
    /\ warmup_calls[3].target_id = 2
    /\ warmup_calls[5].target_id = 1

\* C24: whenever a tick updates the detector, the vector it feeds is the
\* vector the prober returned in that tick, whatever warmup.update
\* returned for its targets.
C24_WarmupIsAdvisory ==
    HasCall(tick_log, "consensus.update") =>
        /\ cycle_results = probed
        /\ history # <<>>
        /\ history[Len(history)] = probed

\* An outage opened in a Monitoring tick on a target whose warmup.update
\* returned false.
C24_Witness ==
    /\ MonitoringLog
    /\ result # None
    /\ IsOpenEvent(result[1])
    /\ cycle_results = probed
    /\ \E k \in CallsOf(tick_log, "warmup.update") :
          /\ ~tick_log[k].ok
          /\ tick_log[k].arg \in Range(result[1].affected_targets)

\* ------------------------------------------------------------ the prober
\* The position of a metric's target in the target list.
TaskOf(metric) == CHOOSE i \in 1..Len(TargetList) : TargetList[i] = metric.target_id

\* C25: with N >= 1 attempts, s successes and t timeouts, a returned
\* metric is Timeout if t = N, else Up if s = N, else Degraded if s > 0,
\* else Down, and its packet_loss_percent is 100 - floor(s * 100 / N).
C25_ProberClassification ==
    (ping_tasks # <<>> /\ ping_count >= 1) =>
        \A k \in 1..Len(ping_results) :
            LET metric == ping_results[k]
                attempts == ping_tasks[TaskOf(metric)][1]
                n == ping_count
                succ == Cardinality({a \in 1..n : attempts[a].res = "success"})
                touts == Cardinality({a \in 1..n : attempts[a].res = "timeout"})
            IN  /\ touts = n => metric.status = "Timeout"
                /\ (touts # n /\ succ = n) => metric.status = "Up"
                /\ (touts # n /\ succ # n /\ succ > 0) => metric.status = "Degraded"
                /\ (touts # n /\ succ = 0) => metric.status = "Down"
                /\ metric.packet_loss_percent # None
                /\ \E q \in 0..100 :
                      /\ q * n <= succ * 100
                      /\ succ * 100 < (q + 1) * n
                      /\ metric.packet_loss_percent[1] = 100 - q

\* Three attempts, one success, one timeout and one failure: Degraded
\* with a loss of 67.
C25_Witness ==
    /\ ping_count = 3
    /\ \E k \in 1..Len(ping_results) :
          /\ ping_results[k].status = "Degraded"
          /\ ping_results[k].packet_loss_percent = Some(67)
          /\ \E a \in 1..3 : ping_tasks[TaskOf(ping_results[k])][1][a].res = "timeout"

\* C26: every returned metric with status Up has a response_time_ms and
\* a packet_loss_percent below 100.
C26_UpHasResponseTime ==
    (ping_tasks # <<>> /\ ping_count >= 1) =>
        \A k \in 1..Len(ping_results) :
            ping_results[k].status = "Up" =>
                /\ ping_results[k].response_time_ms # None
                /\ ping_results[k].packet_loss_percent # None
                /\ ping_results[k].packet_loss_percent[1] < 100

\* An Up metric whose attempts all took 0 ms.
C26_Witness ==
    /\ ping_count = MaxPings
    /\ \E k \in 1..Len(ping_results) :
          /\ ping_results[k].status = "Up"
          /\ ping_results[k].response_time_ms = Some(<<0, MaxPings>>)

\* C27: ping_targets returns no two metrics for one target and a metric
\* for exactly the targets whose task completed, each being what that
\* task alone measured; and a tick that received fewer metrics than
\* targets goes on with them: it attempts their inserts, feeds them to
\* the detector and ends with the liveness check.
C27_FaultOmitsOnlyItsTarget ==
    ping_tasks # <<>> =>
        /\ \A j, k \in 1..Len(ping_results) :
              ping_results[j].target_id = ping_results[k].target_id => j = k
        /\ \A i \in 1..Len(TargetList) :
              (\E k \in 1..Len(ping_results) : ping_results[k].target_id = TargetList[i])
                  <=> ping_tasks[i] # None
        /\ \A k \in 1..Len(ping_results) :
              LET metric == ping_results[k]
                  attempts == ping_tasks[TaskOf(metric)][1]
              IN  /\ metric.status = (IF attempts[1].res = "success" THEN "Up" ELSE "Down")
                  /\ metric.response_time_ms # None <=> attempts[1].res = "success"
        /\ HasCall(tick_log, "ping_targets") =>
              /\ probed = DetectorView(ping_results)
              /\ cycle_results = probed
              /\ Cardinality(CallsOf(tick_log, "consensus.update")) = 1
              /\ tick_log[Len(tick_log)].op = "check_connectivity_resilient"
              /\ MonitoringLog =>
                    \A k \in 1..Len(ping_results) :
                        /\ ping_results[k].cycle_id = tick_log[2].arg
                        /\ \E c \in CallsOf(tick_log, "insert_connectivity_metric") :
                              tick_log[c].arg = ping_results[k].target_id

\* A Monitoring cycle in which the first target's task faulted, the
\* second target was measured Down, and an outage opened on it.
C27_Witness ==
    /\ MonitoringLog
    /\ HasCall(tick_log, "ping_targets")
    /\ ping_tasks[1] = None
    /\ Len(ping_results) = 1
    /\ ping_results[1].target_id = TargetList[2]
    /\ result # None
    /\ IsOpenEvent(result[1])
    /\ [cycle_id |-> tick_log[2].arg, target_id |-> TargetList[2]] \in store_metrics

\* ------------------------------------------------- one scheduler per probe
\* What one more cycle makes of a detector run on its own.
AloneStep(prev, entry, w, q, p) ==
    LET out == UpdateOutcome(prev.history, w, q, prev.current_outage, Some(p),
                             entry.cycle, entry.ts, entry.order)
    IN  [history |-> out.history,
         current_outage |-> out.current_outage,
         returned |-> Append(prev.returned, out.result),
         warmup |-> WarmupAfter(prev.warmup, entry.cycle, Len(entry.cycle))]

\* A fresh detector and an empty warmup map run on the first n cycles of
\* a log, with nothing else running.
RECURSIVE Alone(_, _, _, _, _)
Alone(log, n, w, q, p) ==
    IF n = 0
    THEN [history |-> <<>>, current_outage |-> None, returned |-> <<>>, warmup |-> <<>>]
    ELSE AloneStep(Alone(log, n - 1, w, q, p), log[n], w, q, p)

C29_SilentBeforeWindowFills ==
    /\ \A t \in DOMAIN DownCounts(history) : DownCounts(history)[t] <= Len(history)
    /\ updates < fail_threshold =>
          /\ result = None
          /\ last_emitted = None
          /\ current_outage = None

\* W = 3: after two cycles with the target Down nothing was emitted.
C29_Witness ==
    /\ fail_threshold = MaxWindow
    /\ updates = fail_threshold - 1
    /\ \A i \in 1..Len(history) :
          Len(history[i]) = 1 /\ history[i][1].status = "Down"
    /\ result = None
    /\ current_outage = None

\* The fields of an event that a close carries over.
Opening(e) ==
    [start_time |-> e.start_time, affected_targets |-> e.affected_targets,
     affected_probes |-> e.affected_probes, consensus_level |-> e.consensus_level]

\* C30: an open outage is the event that was returned when it opened,
\* whatever the later cycles, and a closed event carries the start_time,
\* affected_targets, affected_probes and consensus_level of that event.
C30_OpenEventIsFrozen ==
    /\ current_outage # None =>
          /\ emitted # <<>>
          /\ current_outage[1] = emitted[Len(emitted)]
    /\ \A k \in 1..Len(emitted) :
          ~IsOpenEvent(emitted[k]) =>
              /\ k > 1
              /\ IsOpenEvent(emitted[k - 1])
              /\ Opening(emitted[k]) = Opening(emitted[k - 1])

\* An outage opened on the first cycle's single failing target, stayed
\* open through a Monitoring cycle in which both targets were Down (both
\* streaks were reset then), and closed in the third cycle with the fields
\* of its opening.
C30_Witness ==
    /\ ticks = 3
    /\ fail_threshold = 1
    /\ Len(emitted) = 2
    /\ result = Some(emitted[2])
    /\ ~IsOpenEvent(emitted[2])
    /\ Len(emitted[2].affected_targets) = 1
    /\ Cardinality(store_metrics) = 2 * Len(TargetList)
    /\ \A t \in Targets : t \in DOMAIN warmup /\ warmup[t] = 1

\* ------------------------------------------------------- missing metrics
\* A cycle vector without a metric of target t.
Missing(cycle, t) == \A j \in 1..Len(cycle) : cycle[j].target_id # t

\* C31: a target without a metric in some cycle of the window is not in
\* M; when the latest cycle lacks the metric of a target of the open
\* outage and that leaves fewer than Q targets in M, the update closes the
\* outage.
C31_MissingMetricIsNotFailure ==
    /\ \A t \in Targets :
          (\E i \in 1..Len(history) : Missing(history[i], t)) => t \notin M
    /\ (/\ updates > 0
        /\ last_emitted # None
        /\ IsOpenEvent(last_emitted[1])
        /\ \E t \in Range(last_emitted[1].affected_targets) : Missing(cycle_results, t)
        /\ Cardinality(M) < consensus)
           => (result # None /\ ~IsOpenEvent(result[1]))

\* W = 1, Q = 2: an outage open on both targets closes at a cycle whose
\* vector holds only the second target, still Down.
C31_Witness ==
    /\ consensus = 2
    /\ fail_threshold = 1
    /\ result # None
    /\ ~IsOpenEvent(result[1])
    /\ Len(result[1].affected_targets) = 2
    /\ cycle_results = <<ConnectivityMetric(TargetList[2], "Down")>>
    /\ M = {TargetList[2]}

\* -------------------------------------------- a tick in WaitingForInternet
\* C32: a tick in WaitingForInternet inserts no Cycle row, leaves
\* cycle_number, the warmup streaks and the target statuses as they were,
\* and its metrics carry cycle_id 0; a tick in either state updates the
\* detector exactly once, except that a tick whose Cycle insert failed
\* does not update it.
C32_WaitingTickFrame ==
    [][ /\ state = "WaitingForInternet" =>
              /\ store_cycles' = store_cycles
              /\ cycles_submitted' = cycles_submitted
              /\ cycle_number' = cycle_number
              /\ warmup' = warmup
              /\ store_status' = store_status
              /\ \A op \in {"insert_cycle", "warmup.update", "set_target_status",
                             "insert_connectivity_metric"} :
                    CallsOf(tick_log', op) = {}
              /\ \A k \in 1..Len(ping_results') : ping_results'[k].cycle_id = 0
        /\ LET cycle_failed == \E k \in CallsOf(tick_log', "insert_cycle") : ~tick_log'[k].ok
               n == Cardinality(CallsOf(tick_log', "consensus.update"))
           IN  /\ n = (IF cycle_failed THEN 0 ELSE 1)
               /\ updates' = updates + n
               /\ n = 1 => cycle_results' = DetectorView(ping_results')
      ]_vars

\* After a Monitoring cycle that stored a Cycle row, statuses and streaks,
\* a tick in WaitingForInternet returned metrics with cycle_id 0 and
\* updated the detector, the row, the counter, the statuses and the
\* streaks being those of the Monitoring cycle.
C32_Witness ==
    /\ WaitingLog
    /\ ticks = 3
    /\ updates = 3
    /\ cycle_number = 1
    /\ Cardinality(store_cycles) = 1
    /\ DOMAIN warmup = Targets
    /\ DOMAIN store_status = Targets
    /\ Len(ping_results) = Len(TargetList)
    /\ \A k \in 1..Len(ping_results) :
          ping_results[k].cycle_id = 0 /\ ping_results[k].status = "Down"
    /\ \A t \in Targets : warmup[t] = 1 /\ store_status[t] = "Up"

====
